---- MODULE Spec2Model ----
(***************************************************************************)
(* A model of mausignald/rpc.py: SignaldRPCClient, the asyncio client of   *)
(* the signald socket.  The state is the client object's fields plus the   *)
(* position of every asyncio task the client starts (the reconnect loop    *)
(* _communicate_forever, the read loop _try_read_loop, the dispatch of an  *)
(* event _run_rpc_handler) and of every request caller.  One action is one *)
(* uninterrupted run of a task between two awaits.                         *)
(***************************************************************************)
EXTENDS Naturals, Sequences, FiniteSets, TLC

\* ------------------------------------------------------------------ bounds
\* reconnect-loop tasks that connect() calls create in one behaviour
MaxTasks == 2
\* request calls issued in one behaviour of SpecRpc, of Spec
MaxRequests == 2
MaxCalls == 1
\* length of one event's handler list
MaxHandlers == 3
\* callers of wait_for_connected in one behaviour
MaxWaiters == 2

\* ------------------------------------------------------- program constants
CONNECT_EVENT == "_socket_connected"
DISCONNECT_EVENT == "_socket_disconnected"

\* Python's None, for the fields that hold a stream or a task
None == 0
Tasks == 1..MaxTasks
RequestIds == 1..MaxRequests
Waiters == 1..MaxWaiters
\* the slot of the task line 179 spawns for an event frame; slot t in Tasks is
\* the dispatch that reconnect loop t awaits inline (lines 96, 102)
EventSlot == 0
Slots == {EventSlot} \cup Tasks

\* message types of the wire protocol that the model sends around
Types == {"ping", "pong"}
UNEXPECTED_ERROR == "unexpected_error"
\* types of server-pushed events (frames without an id)
EventTypes == {"message"}
EventNames == {CONNECT_EVENT, DISCONNECT_EVENT} \cup EventTypes
\* self._abandon_responses, and the handlers the application registers
ABANDON == "_abandon_responses"
UserHandlers == {"h1", "h2", "h3"}

VARIABLES
    reader,              \* self._reader: None, or t for the stream task t opened
    writer,              \* self._writer: None, or t
    is_connected,        \* self.is_connected
    connect_future,      \* state of the future self._connect_future holds now
    communicate_task,    \* self._communicate_task: None or a task
    response_waiters,    \* keys of self._response_waiters
    rpc_event_handlers,  \* self._rpc_event_handlers: name -> [key, list]
    task,                \* task[t]: where _communicate_forever task t stands
    read_loop,           \* read_loop[t]: the _try_read_loop task that t started
    run,                 \* run[k]: the last activation of _run_rpc_handler in slot k
    future,              \* future[i]: the waiter created for request i
    call,                \* call[i]: the caller of request i
    stopped,             \* history: disconnect() returned, no connect() since
    lost,                \* history: lost[t], loop t lost its connection and has
                         \* neither slept nor connected since
    owed,                \* history: waiters that were pending when a read loop ended
    handled,             \* history: handled[i], the frame that popped waiter i
                         \* and whether the waiter was settled already
    connector,           \* connector[t]: the caller of the connect() that created
                         \* loop task t, which awaits the future at line 79
    waiter,              \* waiter[w]: a caller of wait_for_connected
    line_result          \* history: how the read loop dealt with its last line

vars == <<reader, writer, is_connected, connect_future, communicate_task,
          response_waiters, rpc_event_handlers, task, read_loop, run, future,
          call, stopped, lost, owed, handled, connector, waiter, line_result>>

\* The state as one record, so that the code of a task that runs on through
\* several methods is the composition of their state transformers.
St ==
    [reader |-> reader, writer |-> writer, is_connected |-> is_connected,
     connect_future |-> connect_future, communicate_task |-> communicate_task,
     response_waiters |-> response_waiters,
     rpc_event_handlers |-> rpc_event_handlers, task |-> task,
     read_loop |-> read_loop, run |-> run, future |-> future, call |-> call,
     stopped |-> stopped, lost |-> lost, owed |-> owed, handled |-> handled,
     connector |-> connector, waiter |-> waiter, line_result |-> line_result]

Set(s) ==
    /\ reader' = s.reader
    /\ writer' = s.writer
    /\ is_connected' = s.is_connected
    /\ connect_future' = s.connect_future
    /\ communicate_task' = s.communicate_task
    /\ response_waiters' = s.response_waiters
    /\ rpc_event_handlers' = s.rpc_event_handlers
    /\ task' = s.task
    /\ read_loop' = s.read_loop
    /\ run' = s.run
    /\ future' = s.future
    /\ call' = s.call
    /\ stopped' = s.stopped
    /\ lost' = s.lost
    /\ owed' = s.owed
    /\ handled' = s.handled
    /\ connector' = s.connector
    /\ waiter' = s.waiter
    /\ line_result' = s.line_result

\* ----------------------------------------------------------------- futures
NoFuture == [st |-> "none", exc |-> "", type |-> "", data |-> ""]
PendingFuture == [st |-> "pending", exc |-> "", type |-> "", data |-> ""]
ResultOf(type, data) == [st |-> "result", exc |-> "", type |-> type, data |-> data]
ExceptionOf(exc, type, data) ==
    [st |-> "exception", exc |-> exc, type |-> type, data |-> data]
NotConnected == ExceptionOf("NotConnected", "", "")
UnexpectedError(message) == ExceptionOf("UnexpectedError", "", message)
UnexpectedResponse(type, data) == ExceptionOf("UnexpectedResponse", type, data)

\* asyncio.Future.set_result / set_exception: a future that is already done
\* raises InvalidStateError and keeps its state
set_future(s, i, value) ==
    IF s.future[i].st = "pending" THEN [s EXCEPT !.future[i] = value] ELSE s

\* ------------------------------------------- the connected signal's callers
\* self._connect_future is "pending", "done" (set_result at line 97) or
\* "cancelled".  A caller of connect() awaits it bare at line 79: "blocked" on
\* the future the field holds now, "orphaned" on a pending future that the
\* client has replaced since, "returned", "cancelled" (the caller's task was
\* cancelled) or "future_cancelled" (CancelledError out of a cancelled future).
\* A caller of wait_for_connected awaits it shielded at line 71: "blocked",
\* "orphaned", "woken" (the future has its result and the wake-up is queued),
\* and then how the call ended: "true" or "false" (the value returned),
\* "timeout" (TimeoutError), "cancelled", "future_cancelled".  waited and
\* left are history: the call was suspended at line 71, and the callers that
\* were blocked on the current future when this one timed out or was cancelled.
NoWaiter == [st |-> "none", waited |-> FALSE, left |-> {}]

BlockedWaiters(s) == {w \in Waiters : s.waiter[w].st = "blocked"}

\* every caller blocked on the current future moves on
blocked_callers(s, connector_becomes, waiter_becomes) ==
    [s EXCEPT
        !.connector = [t \in Tasks |->
            IF s.connector[t] = "blocked" THEN connector_becomes ELSE s.connector[t]],
        !.waiter = [w \in Waiters |->
            IF s.waiter[w].st = "blocked"
            THEN [s.waiter[w] EXCEPT !.st = waiter_becomes]
            ELSE s.waiter[w]]]

\* self._connect_future.set_result(True), line 97, on a pending future
future_resolved(s) ==
    [blocked_callers(s, "returned", "woken") EXCEPT !.connect_future = "done"]

\* self._connect_future = self.loop.create_future(), lines 103 and 116
future_replaced(s) ==
    [blocked_callers(s, "orphaned", "orphaned") EXCEPT !.connect_future = "pending"]

\* Future.cancel() reaches the future the field holds
future_cancelled(s) ==
    [blocked_callers(s, "future_cancelled", "future_cancelled") EXCEPT
        !.connect_future = "cancelled"]

\* await self._connect_future, line 79
await_connect_future(s, t) ==
    [s EXCEPT !.connector[t] =
        CASE s.connect_future = "pending" -> "blocked"
          [] s.connect_future = "done" -> "returned"
          [] OTHER -> "future_cancelled"]

\* wait_for_connected, lines 68-72, up to its suspension: wait_for does not
\* wait for a future that is done
wait_for_connected(s, w) ==
    IF s.is_connected
    THEN [s EXCEPT !.waiter[w].st = "true"]
    ELSE CASE s.connect_future = "pending" ->
                  [s EXCEPT !.waiter[w].st = "blocked", !.waiter[w].waited = TRUE]
           [] s.connect_future = "done" ->
                  [s EXCEPT !.waiter[w].st = "false"]
           [] OTHER ->
                  [s EXCEPT !.waiter[w].st = "future_cancelled"]

\* line 72, when the caller resumes
waiter_resumes(s, w) ==
    [s EXCEPT !.waiter[w].st = IF s.is_connected THEN "true" ELSE "false"]

\* a wait_for_connected that awaits the future without asyncio.shield
waiter_stops_unshielded(s, w, how) ==
    [future_cancelled(s) EXCEPT
        !.waiter[w].st = how, !.waiter[w].left = BlockedWaiters(s) \ {w}]

\* the caller's task is cancelled, or wait_for's timer fires (how = "timeout"),
\* while it is in line 71: asyncio.shield keeps the cancellation from the
\* future
waiter_stops(s, w, how) ==
    [s EXCEPT !.waiter[w].st = how, !.waiter[w].left = BlockedWaiters(s) \ {w}]

\* the task of the connect() caller of loop t is cancelled in line 79: the
\* cancellation goes to the future the task awaits
connect_cancelled(s, t) ==
    IF s.connector[t] = "blocked"
    THEN [future_cancelled(s) EXCEPT !.connector[t] = "cancelled"]
    ELSE [s EXCEPT !.connector[t] = "cancelled"]

\* ------------------------------------------------------------------ frames
NoFrame == [id |-> None, type |-> "", error |-> "", data |-> ""]
NotHandled == [req |-> NoFrame, was_done |-> FALSE]
\* the `error` member of a frame: absent, a JSON string, a JSON object, or
\* JSON of another kind (null, a number, a list, a boolean)
ErrorValues == {"absent", "string", "object", "null"}
\* the `data` member: absent, an object with a "message" member, one without
DataValues == {"absent", "object", "object_message"}

\* ------------------------------------------------------------ the registry
\* _abandon_responses, lines 222-228
abandon_responses(s) ==
    [s EXCEPT !.future =
        [i \in RequestIds |->
            IF i \in s.response_waiters /\ s.future[i].st = "pending"
            THEN NotConnected
            ELSE s.future[i]]]

\* --------------------------------------------------------- the dispatcher
\* One activation of _run_rpc_handler.  cmd, idx (the position of the list
\* iterator of line 133) and error are the method's locals; result is the label
\* it gives EVENTS_COUNTER.  keyed, at_start, invoked, raised and kept are
\* history: whether the name had an entry and which list it had when the
\* activation started, the handlers called so far, whether each raised, and
\* the handlers that have been in the list ever since the activation started.
Registered(handlers) == {handlers[j] : j \in 1..Len(handlers)}

NoRun ==
    [st |-> "none", cmd |-> "", idx |-> 0, error |-> FALSE, result |-> "",
     keyed |-> FALSE, at_start |-> <<>>, invoked |-> <<>>, raised |-> <<>>,
     kept |-> {}]

\* lines 139-142: the label once the for loop is over
result_label(error) == IF error THEN "error" ELSE "success"

\* lines 133-142 from the top of the for loop: the iterator of the live list
\* self._rpc_event_handlers[command] yields the element at its position, if
\* there still is one, and the handler is called.  _abandon_responses has no
\* await: it returns within the same step and the loop goes on.  Any other
\* handler is awaited: the activation is suspended until HandlerReturn.
RECURSIVE for_handlers(_, _)
for_handlers(s, k) ==
    LET r == s.run[k]
        handlers == s.rpc_event_handlers[r.cmd].list
    IN  IF r.idx < Len(handlers)
        THEN LET handler == handlers[r.idx + 1]
                 s1 == [s EXCEPT !.run[k].idx = @ + 1,
                                 !.run[k].invoked = Append(@, handler)]
             IN  IF handler = ABANDON
                 THEN for_handlers(
                          [abandon_responses(s1) EXCEPT
                              !.run[k].raised = Append(@, FALSE)], k)
                 ELSE s1
        ELSE [s EXCEPT !.run[k].st = "done",
                       !.run[k].result = result_label(r.error)]

\* a dispatcher that counts an empty handler list as unhandled
run_rpc_handler_empty_unhandled(s, k, command) ==
    IF ~s.rpc_event_handlers[command].key \/ s.rpc_event_handlers[command].list = <<>>
    THEN [s EXCEPT !.run[k] =
             [NoRun EXCEPT !.st = "done", !.cmd = command, !.result = "unhandled",
                           !.keyed = s.rpc_event_handlers[command].key]]
    ELSE for_handlers(
             [s EXCEPT !.run[k] =
                 [NoRun EXCEPT !.st = "running", !.cmd = command, !.keyed = TRUE,
                               !.at_start = s.rpc_event_handlers[command].list,
                               !.kept = Registered(s.rpc_event_handlers[command].list)]],
             k)

\* _run_rpc_handler, lines 124-142, up to its first suspension
run_rpc_handler(s, k, command) ==
    IF ~s.rpc_event_handlers[command].key
    THEN [s EXCEPT !.run[k] =
             [NoRun EXCEPT !.st = "done", !.cmd = command, !.result = "unhandled"]]
    ELSE for_handlers(
             [s EXCEPT !.run[k] =
                 [NoRun EXCEPT !.st = "running", !.cmd = command, !.keyed = TRUE,
                               !.at_start = s.rpc_event_handlers[command].list,
                               !.kept = Registered(s.rpc_event_handlers[command].list)]],
             k)

\* lines 134-138: the awaited handler returns (ok) or raises an Exception,
\* which is logged and sets error; then the for loop goes on
handler_returns(s, k, ok) ==
    for_handlers(
        [s EXCEPT !.run[k].raised = Append(@, ~ok),
                  !.run[k].error = @ \/ ~ok], k)

\* ----------------------------------------------------- the reconnect loop
\* a loop task that has not ended
Alive(pc) == pc \in {"created", "opening", "sleeping", "connect_event",
                     "await_read", "disconnect_event"}
\* a read loop task that has returned (by end of stream or a logged error)
Ended(rl) == rl \in {"eof", "error", "reset"}

\* lines 84-86: the call of asyncio.open_unix_connection
open_attempt(s, t) ==
    [s EXCEPT !.task[t] = "opening"]

\* a loop that waits out the delay of line 89 after a lost connection as well
after_disconnect_event_sleeps(s, t) ==
    [future_replaced(s) EXCEPT !.task[t] = "sleeping"]

\* lines 103-104 and back to line 84
after_disconnect_event(s, t) ==
    open_attempt(future_replaced(s), t)

\* lines 100-102, then on if the dispatch did not suspend
after_read_loop(s, t) ==
    LET s1 == run_rpc_handler([s EXCEPT !.is_connected = FALSE], t, DISCONNECT_EVENT)
    IN  IF s1.run[t].st = "done"
        THEN after_disconnect_event(s1, t)
        ELSE [s1 EXCEPT !.task[t] = "disconnect_event"]

\* lines 97-99: set_result raises InvalidStateError on a future that is done,
\* which ends the loop task; awaiting a read loop that has already returned
\* does not suspend
after_connect_event(s, t) ==
    IF s.connect_future # "pending"
    THEN [s EXCEPT !.task[t] = "failed"]
    ELSE LET s1 == future_resolved(s)
         IN  IF Ended(s1.read_loop[t])
             THEN after_read_loop(s1, t)
             ELSE [s1 EXCEPT !.task[t] = "await_read"]

\* lines 92-96 after open_unix_connection returned
after_open(s, t) ==
    LET s1 == run_rpc_handler(
                  [s EXCEPT !.reader = t, !.writer = t, !.read_loop[t] = "running",
                            !.is_connected = TRUE, !.lost[t] = FALSE],
                  t, CONNECT_EVENT)
    IN  IF s1.run[t].st = "done"
        THEN after_connect_event(s1, t)
        ELSE [s1 EXCEPT !.task[t] = "connect_event"]

\* the loop task resumes after the dispatch it awaited is over
after_event(s, t) ==
    IF s.task[t] = "connect_event"
    THEN after_connect_event(s, t)
    ELSE after_disconnect_event(s, t)

\* asyncio.Task.cancel() on loop task t (line 111).  CancelledError is no
\* Exception: neither line 87 nor line 136 catches it, and the task ends.  A
\* task that awaits another task hands the cancellation on to it (the read
\* loop, at line 99, where line 186 does not catch it either); when that task
\* is already done the loop task is cancelled as it wakes up.
cancel_task(s, t) ==
    IF ~Alive(s.task[t]) THEN s
    ELSE LET s1 == [s EXCEPT !.task[t] = "cancelled"]
         IN  CASE s.task[t] = "await_read" /\ s.read_loop[t] = "running" ->
                      [s1 EXCEPT !.read_loop[t] = "cancelled"]
               [] s.task[t] \in {"connect_event", "disconnect_event"} ->
                      [s1 EXCEPT !.run[t].st = "cancelled"]
               [] OTHER -> s1

\* ----------------------------------------------------------- the read loop
PendingWaiters(s) ==
    {i \in s.response_waiters : s.future[i].st = "pending"}

\* The read loop task of loop t returns.  how = "eof": the while loop of line
\* 190 is left and lines 203-205 clear both stream fields.  how = "error":
\* readline raised on a transport that is still open (a frame over
\* _SOCKET_LIMIT); how = "reset": the transport was lost with an error, which
\* readline raises.  Line 186 catches and logs either, and lines 203-205 are
\* skipped.
read_loop_ends(s, t, how) ==
    LET s1 == [s EXCEPT !.read_loop[t] = how,
                        !.lost[t] = TRUE,
                        !.owed = @ \cup PendingWaiters(s)]
    IN  IF how = "eof"
        THEN [s1 EXCEPT !.reader = None, !.writer = None]
        ELSE s1

\* a response handler whose test at line 158 accepts a string only
run_response_handlers_string_only(s, req_id, command, req) ==
    IF req_id \notin s.response_waiters
    THEN s
    ELSE LET s1 == [s EXCEPT !.response_waiters = @ \ {req_id},
                             !.handled[req_id] =
                                 [req |-> req,
                                  was_done |-> s.future[req_id].st # "pending"]]
         IN  IF command = UNEXPECTED_ERROR
             THEN CASE req.data = "object_message" ->
                           set_future(s1, req_id, UnexpectedError("message"))
                    [] req.data = "object" ->
                           set_future(s1, req_id, UnexpectedError("no message"))
                    [] OTHER -> s1
             ELSE IF req.error = "string"
                  THEN set_future(s1, req_id, ExceptionOf("ResponseError", "", req.error))
                  ELSE set_future(s1, req_id, ResultOf(command, req.data))

\* _run_response_handlers, lines 144-161.  data["message"] raises KeyError on
\* an object without that member and TypeError when data is None: the
\* TypeError leaves through line 201 with the waiter popped and unsettled.
run_response_handlers(s, req_id, command, req) ==
    IF req_id \notin s.response_waiters
    THEN s
    ELSE LET s1 == [s EXCEPT !.response_waiters = @ \ {req_id},
                             !.handled[req_id] =
                                 [req |-> req,
                                  was_done |-> s.future[req_id].st # "pending"]]
         IN  IF command = UNEXPECTED_ERROR
             THEN CASE req.data = "object_message" ->
                           set_future(s1, req_id, UnexpectedError("message"))
                    [] req.data = "object" ->
                           set_future(s1, req_id, UnexpectedError("no message"))
                    [] OTHER -> s1
             ELSE IF req.error \in {"string", "object"}
                  THEN set_future(s1, req_id, ExceptionOf("ResponseError", "", req.error))
                  ELSE set_future(s1, req_id, ResultOf(command, req.data))

\* _handle_incoming_line, lines 163-181, for a frame that is JSON with a type
handle_incoming_line(s, req) ==
    IF req.id = None
    THEN run_rpc_handler(s, EventSlot, req.type)
    ELSE run_response_handlers(s, req.id, req.type, req)

\* the lines that are no frame: bytes that are not UTF-8, text that is not
\* JSON, a JSON object without "type", JSON that is no object
MalformedLines == {"bad_utf8", "bad_json", "no_type", "not_object"}

\* line_result (history) after a frame was handled: whether it came right
\* after a dropped line
after_frame(s, req) ==
    IF s.line_result # "dropped" THEN s
    ELSE [s EXCEPT !.line_result =
             IF req.id = None THEN "event_after_drop" ELSE "response_after_drop"]

\* lines 190-202: readline returned a frame; it is handled, and line 190 then
\* finds self._reader cleared (by disconnect) or goes back to readline
read_loop_line(s, t, req) ==
    LET s1 == after_frame(handle_incoming_line(s, req), req)
    IN  IF s1.reader = None THEN read_loop_ends(s1, t, "eof") ELSE s1

\* a read loop that lets the exception of a malformed line out
read_loop_malformed_fatal(s, t, kind) ==
    read_loop_ends([s EXCEPT !.line_result = "dropped"], t, "error")

\* lines 190-202 for a line that is no frame: UnicodeDecodeError is caught at
\* line 196, JSONDecodeError at line 166, the KeyError of req["type"] at line
\* 171, and the TypeError of req["type"] on JSON that is no object at line 201;
\* each is logged and the loop goes back to readline
read_loop_malformed(s, t, kind) ==
    [s EXCEPT !.line_result = "dropped"]

\* ------------------------------------------------------------ request calls
NoCall == [st |-> "none", expected |-> "", sent |-> FALSE, outcome |-> NoFuture]

\* a _request that returns the payload without the comparison of line 248
request_outcome_unchecked(expected_response, fut) ==
    IF fut.st = "exception"
    THEN fut
    ELSE [st |-> "returned", exc |-> "", type |-> "", data |-> fut.data]

\* _request, lines 246-250, once the shielded future of line 244 is done
request_outcome(expected_response, fut) ==
    IF fut.st = "exception"
    THEN fut
    ELSE IF fut.type # expected_response
         THEN UnexpectedResponse(fut.type, fut.data)
         ELSE [st |-> "returned", exc |-> "", type |-> "", data |-> fut.data]

\* a StreamWriter whose transport was lost with an error: drain() raises it
TransportLost(s) ==
    s.writer # None /\ s.read_loop[s.writer] = "reset"

\* _raw_request, lines 239-244, called by _request with a fresh uuid4() id:
\* _create_request registers the waiter (lines 213-220), then _send_request
\* raises NotConnected without a writer (lines 231-232) or writes the frame;
\* the exception that drain() raises at line 236 goes to the caller as it is
raw_request(s, req_id, expected_response) ==
    LET s1 == [s EXCEPT !.response_waiters = @ \cup {req_id},
                        !.future[req_id] = PendingFuture]
    IN  IF s1.writer = None
        THEN [s1 EXCEPT !.call[req_id] =
                 [st |-> "done", expected |-> expected_response, sent |-> FALSE,
                  outcome |-> NotConnected]]
        ELSE IF TransportLost(s1)
        THEN [s1 EXCEPT !.call[req_id] =
                 [st |-> "done", expected |-> expected_response, sent |-> FALSE,
                  outcome |-> ExceptionOf("ConnectionResetError", "", "")]]
        ELSE [s1 EXCEPT !.call[req_id] =
                 [st |-> "waiting", expected |-> expected_response, sent |-> TRUE,
                  outcome |-> NoFuture]]

\* a _raw_request that awaits the waiter without asyncio.shield
call_cancelled_unshielded(s, i) ==
    [s EXCEPT !.call[i].st = "cancelled",
              !.future[i] = [PendingFuture EXCEPT !.st = "cancelled"]]

\* the caller's task is cancelled while it is in line 244: asyncio.shield
\* keeps the cancellation from the waiter
call_cancelled(s, i) ==
    [s EXCEPT !.call[i].st = "cancelled"]

\* ------------------------------------------------------------ the public API
UnusedTasks(s) == {t \in Tasks : s.task[t] = "none"}
UnusedIds(s) == {i \in RequestIds : s.call[i].st = "none"}
Least(S) == CHOOSE x \in S : \A y \in S : x <= y

\* connect, lines 74-79
connect(s) ==
    IF s.writer # None
    THEN [s EXCEPT !.stopped = FALSE]
    ELSE LET t == Least(UnusedTasks(s))
         IN  await_connect_future(
                 [s EXCEPT !.task[t] = "created", !.communicate_task = t,
                           !.stopped = FALSE], t)

\* disconnect, lines 106-116; drain() at line 109 raises on a transport that
\* was lost with an error, and the call ends there
disconnect(s) ==
    IF s.writer = None
    THEN [s EXCEPT !.stopped = TRUE]
    ELSE IF TransportLost(s)
    THEN s
    ELSE LET s1 == IF s.communicate_task # None
                   THEN [cancel_task(s, s.communicate_task) EXCEPT
                            !.communicate_task = None]
                   ELSE s
         IN  [future_replaced(s1) EXCEPT
                 !.writer = None, !.reader = None, !.is_connected = FALSE,
                 !.stopped = TRUE]

\* the activations that are iterating the list of `method` see it change
list_changed(s, method) ==
    [s EXCEPT !.run =
        [k \in Slots |->
            IF s.run[k].st = "running" /\ s.run[k].cmd = method
            THEN [s.run[k] EXCEPT
                     !.kept = @ \cap Registered(s.rpc_event_handlers[method].list)]
            ELSE s.run[k]]]

\* add_rpc_handler, lines 118-119
add_rpc_handler(s, method, handler) ==
    list_changed(
        [s EXCEPT !.rpc_event_handlers[method] =
            [key |-> TRUE, list |-> Append(@.list, handler)]], method)

\* list.remove: the list without the first occurrence of x
RECURSIVE remove_first(_, _)
remove_first(list, x) ==
    IF list = <<>> THEN <<>>
    ELSE IF Head(list) = x THEN Tail(list)
    ELSE <<Head(list)>> \o remove_first(Tail(list), x)

InList(list, x) == \E j \in 1..Len(list) : list[j] = x

\* remove_rpc_handler, lines 121-122: setdefault makes the entry, and remove
\* raises ValueError when the handler is not in the list
remove_rpc_handler(s, method, handler) ==
    LET list == s.rpc_event_handlers[method].list
    IN  IF InList(list, handler)
        THEN list_changed(
                 [s EXCEPT !.rpc_event_handlers[method] =
                     [key |-> TRUE, list |-> remove_first(list, handler)]], method)
        ELSE [s EXCEPT !.rpc_event_handlers[method].key = TRUE]

\* ---------------------------------------------------------------- the steps
\* __init__, lines 56-66
Init ==
    /\ reader = None
    /\ writer = None
    /\ communicate_task = None
    /\ is_connected = FALSE
    /\ connect_future = "pending"
    /\ response_waiters = {}
    /\ rpc_event_handlers =
           [e \in EventNames |->
               CASE e = CONNECT_EVENT -> [key |-> TRUE, list |-> <<>>]
                 [] e = DISCONNECT_EVENT -> [key |-> TRUE, list |-> <<ABANDON>>]
                 [] OTHER -> [key |-> FALSE, list |-> <<>>]]
    /\ task = [t \in Tasks |-> "none"]
    /\ read_loop = [t \in Tasks |-> "none"]
    /\ run = [k \in Slots |-> NoRun]
    /\ future = [i \in RequestIds |-> NoFuture]
    /\ call = [i \in RequestIds |-> NoCall]
    /\ stopped = FALSE
    /\ lost = [t \in Tasks |-> FALSE]
    /\ owed = {}
    /\ handled = [i \in RequestIds |-> NotHandled]
    /\ connector = [t \in Tasks |-> "none"]
    /\ waiter = [w \in Waiters |-> NoWaiter]
    /\ line_result = "none"

\* a caller calls connect()
Connect ==
    /\ writer # None \/ UnusedTasks(St) # {}
    /\ Set(connect(St))

\* a caller calls disconnect(); drain() of line 109 returns, or raises,
\* without suspending
Disconnect ==
    /\ TRUE
    /\ Set(disconnect(St))

\* The event loop runs its ready queue in order.  The wake-up of a loop task
\* whose read loop has returned is queued before the first step of any task
\* that a later connect() creates (WakeupQueued); and the first step of a
\* created task, like the wake-up of a caller whose future has its result, is
\* queued before the callback of any socket event or timer that the loop has
\* yet to poll (StartQueued).  Callers, whose steps may be in the queue
\* already, are not ordered.
WakeupQueued ==
    \E u \in Tasks : task[u] = "await_read" /\ Ended(read_loop[u])

StartQueued ==
    \/ \E u \in Tasks : task[u] = "created"
    \/ \E w \in Waiters : waiter[w].st = "woken"

\* the first step of loop task t: line 84
TaskStart(t) ==
    /\ task[t] = "created"
    /\ ~WakeupQueued
    /\ Set(open_attempt(St, t))

\* open_unix_connection raises OSError: lines 87-89
OpenFail(t) ==
    /\ task[t] = "opening"
    /\ ~StartQueued
    /\ Set([St EXCEPT !.task[t] = "sleeping"])

\* asyncio.sleep(5) is over: line 90, and line 84 again
SleepDone(t) ==
    /\ task[t] = "sleeping"
    /\ ~StartQueued
    /\ Set(open_attempt([St EXCEPT !.lost[t] = FALSE], t))

\* open_unix_connection returns the streams: lines 84-99
OpenOk(t) ==
    /\ task[t] = "opening"
    /\ ~StartQueued
    /\ Set(after_open(St, t))

\* the loop task wakes up from line 99: lines 100-104
CommResume(t) ==
    /\ task[t] = "await_read"
    /\ Ended(read_loop[t])
    /\ Set(after_read_loop(St, t))

\* the handler that the activation in slot k awaits returns or raises
HandlerReturn(k, ok) ==
    /\ run[k].st = "running"
    /\ ~StartQueued
    /\ LET s1 == handler_returns(St, k, ok)
       IN  Set(IF k \in Tasks /\ s1.run[k].st = "done" THEN after_event(s1, k) ELSE s1)

\* readline returns a response frame to the read loop of t
RecvResponse(t, req) ==
    /\ read_loop[t] = "running"
    /\ ~StartQueued
    /\ req.id # None
    /\ Set(read_loop_line(St, t, req))

\* readline returns an event frame to the read loop of t; one spawned
\* dispatch task is followed at a time
RecvEvent(t, req) ==
    /\ read_loop[t] = "running"
    /\ ~StartQueued
    /\ req.id = None
    /\ run[EventSlot].st # "running"
    /\ Set(read_loop_line(St, t, req))

\* readline returns a line that is no frame to the read loop of t
RecvMalformed(t, kind) ==
    /\ read_loop[t] = "running"
    /\ ~StartQueued
    /\ Set(read_loop_malformed(St, t, kind))

\* readline returns b"" at the end of the stream: lines 192-193, 190, 203-205
RecvEOF(t) ==
    /\ read_loop[t] = "running"
    /\ ~StartQueued
    /\ Set(read_loop_ends(St, t, "eof"))

\* readline raises: lines 183-187
RecvError(t) ==
    /\ read_loop[t] = "running"
    /\ ~StartQueued
    /\ Set(read_loop_ends(St, t, "error"))

\* the transport is lost with an error and readline raises it: lines 183-187
RecvReset(t) ==
    /\ read_loop[t] = "running"
    /\ ~StartQueued
    /\ Set(read_loop_ends(St, t, "reset"))

\* a caller calls _request(command, expected_response); `limit` bounds the
\* calls of one behaviour
Request(limit, expected_response) ==
    /\ Cardinality(RequestIds \ UnusedIds(St)) < limit
    /\ Set(raw_request(St, Least(UnusedIds(St)), expected_response))

\* the caller of request i resumes from line 244 with the settled future
ReturnCall(i) ==
    /\ call[i].st = "waiting"
    /\ future[i].st \in {"result", "exception"}
    /\ Set([St EXCEPT !.call[i].st = "done",
                      !.call[i].outcome = request_outcome(call[i].expected, future[i])])

\* the task of the caller of request i is cancelled while it awaits the response
CancelCall(i) ==
    /\ call[i].st = "waiting"
    /\ Set(call_cancelled(St, i))

AddHandler(method, handler) ==
    /\ Len(rpc_event_handlers[method].list) < MaxHandlers
    /\ Set(add_rpc_handler(St, method, handler))

RemoveHandler(method, handler) ==
    /\ TRUE
    /\ Set(remove_rpc_handler(St, method, handler))

\* a caller calls wait_for_connected(timeout)
WaitForConnected(w) ==
    /\ waiter[w].st = "none"
    /\ Set(wait_for_connected(St, w))

\* a woken caller of wait_for_connected runs: line 72
ResumeWaiter(w) ==
    /\ waiter[w].st = "woken"
    /\ Set(waiter_resumes(St, w))

\* the timeout of a suspended wait_for_connected expires
TimeoutWaiter(w) ==
    /\ waiter[w].st \in {"blocked", "orphaned"}
    /\ ~StartQueued
    /\ Set(waiter_stops(St, w, "timeout"))

\* the task of a suspended wait_for_connected caller is cancelled
CancelWaiter(w) ==
    /\ waiter[w].st \in {"blocked", "orphaned", "woken"}
    /\ Set(waiter_stops(St, w, "cancelled"))

\* the task of the connect() caller of loop t is cancelled while it is
\* blocked on the future the client holds
CancelConnect(t) ==
    /\ connector[t] = "blocked"
    /\ Set(connect_cancelled(St, t))

\* ------------------------------------------- the connection manager: Spec
\* The environment of Spec: any interleaving of connect(), disconnect() and
\* request calls with the loop tasks, a daemon that answers a request with a
\* well-formed frame of its type, and an application that registers one
\* handler on a lifecycle event.
BasicFrames ==
    [id : RequestIds, type : {"ping"}, error : {"absent"}, data : {"object"}]

AddLifecycleHandler ==
    \E method \in {CONNECT_EVENT, DISCONNECT_EVENT} :
        /\ ~InList(rpc_event_handlers[method].list, "h1")
        /\ AddHandler(method, "h1")

Next ==
    \/ Connect
    \/ Disconnect
    \/ \E t \in Tasks : TaskStart(t)
    \/ \E t \in Tasks : OpenFail(t)
    \/ \E t \in Tasks : SleepDone(t)
    \/ \E t \in Tasks : OpenOk(t)
    \/ \E t \in Tasks : CommResume(t)
    \/ \E k \in Tasks, ok \in BOOLEAN : HandlerReturn(k, ok)
    \/ \E t \in Tasks, req \in BasicFrames : RecvResponse(t, req)
    \/ \E t \in Tasks : RecvEOF(t)
    \/ \E t \in Tasks : RecvError(t)
    \/ \E t \in Tasks : RecvReset(t)
    \/ Request(MaxCalls, "ping")
    \/ \E i \in RequestIds : ReturnCall(i)
    \/ AddLifecycleHandler

Spec == Init /\ [][Next]_vars

\* ------------------------------------------- requests and responses: SpecRpc
\* The environment of SpecRpc: one connect() call, a socket that opens, and a
\* daemon that answers a registered id with any response frame (any type,
\* `error` and `data` member), sends a response nobody waits for, or closes
\* the stream; callers that expect any type and may be cancelled while they
\* await the response.
ResponseFrames ==
    [id : RequestIds, type : Types \cup {UNEXPECTED_ERROR}, error : ErrorValues,
     data : DataValues]

FirstConnect ==
    /\ UnusedTasks(St) = Tasks
    /\ Connect

RecvAnswer ==
    \E t \in Tasks, req \in ResponseFrames :
        req.id \in response_waiters /\ RecvResponse(t, req)

RecvLate ==
    \E t \in Tasks, req \in BasicFrames :
        req.id \notin response_waiters /\ RecvResponse(t, req)

NextRpc ==
    \/ FirstConnect
    \/ \E t \in Tasks : TaskStart(t)
    \/ \E t \in Tasks : OpenOk(t)
    \/ \E t \in Tasks : CommResume(t)
    \/ RecvAnswer
    \/ RecvLate
    \/ \E t \in Tasks : RecvEOF(t)
    \/ \E expected_response \in Types : Request(MaxRequests, expected_response)
    \/ \E i \in RequestIds : ReturnCall(i)
    \/ \E i \in RequestIds : CancelCall(i)

SpecRpc == Init /\ [][NextRpc]_vars

\* ------------------------------------------- the dispatcher: SpecDispatch
\* The environment of SpecDispatch: one connect() call, a socket that opens,
\* a daemon that pushes events, handlers that return or raise, and an
\* application that adds and removes handlers of the pushed event's name at
\* any moment, also while a dispatch is suspended in a handler.
EventFrames ==
    [id : {None}, type : EventTypes, error : {"absent"}, data : {"object"}]

NextDispatch ==
    \/ FirstConnect
    \/ \E t \in Tasks : TaskStart(t)
    \/ \E t \in Tasks : OpenOk(t)
    \/ \E t \in Tasks, req \in EventFrames : RecvEvent(t, req)
    \/ \E ok \in BOOLEAN : HandlerReturn(EventSlot, ok)
    \/ \E method \in EventTypes, handler \in UserHandlers : AddHandler(method, handler)
    \/ \E method \in EventTypes, handler \in UserHandlers : RemoveHandler(method, handler)

SpecDispatch == Init /\ [][NextDispatch]_vars

\* ------------------------------------------- lines off the wire: SpecLines
\* The environment of SpecLines: one connect() call, a socket that opens,
\* callers of requests, an application with a handler for the pushed event,
\* and a daemon that sends responses to the requests it got, events, and
\* malformed lines in any order.
OneEventHandler ==
    \E method \in EventTypes :
        /\ rpc_event_handlers[method].list = <<>>
        /\ AddHandler(method, "h1")

RecvBasicAnswer ==
    \E t \in Tasks, req \in BasicFrames :
        req.id \in response_waiters /\ RecvResponse(t, req)

NextLines ==
    \/ FirstConnect
    \/ \E t \in Tasks : TaskStart(t)
    \/ \E t \in Tasks : OpenOk(t)
    \/ OneEventHandler
    \/ Request(MaxRequests, "ping")
    \/ \E i \in RequestIds : ReturnCall(i)
    \/ RecvBasicAnswer
    \/ \E t \in Tasks, req \in EventFrames : RecvEvent(t, req)
    \/ \E ok \in BOOLEAN : HandlerReturn(EventSlot, ok)
    \/ \E t \in Tasks, kind \in MalformedLines : RecvMalformed(t, kind)

SpecLines == Init /\ [][NextLines]_vars

\* ------------------------------------------- the connected signal: SpecWait
\* The environment of SpecWait: connect() calls made while no reconnect loop
\* is alive, disconnect() at any moment, a socket that opens or fails and a
\* daemon that closes the stream, an application handler on a lifecycle
\* event, and callers of wait_for_connected and of connect() that time out or
\* are cancelled at any moment.
ConnectIdle ==
    /\ \A t \in Tasks : ~Alive(task[t])
    /\ Connect

NextWait ==
    \/ ConnectIdle
    \/ Disconnect
    \/ \E t \in Tasks : TaskStart(t)
    \/ \E t \in Tasks : OpenFail(t)
    \/ \E t \in Tasks : SleepDone(t)
    \/ \E t \in Tasks : OpenOk(t)
    \/ \E t \in Tasks : CommResume(t)
    \/ \E k \in Tasks, ok \in BOOLEAN : HandlerReturn(k, ok)
    \/ \E t \in Tasks : RecvEOF(t)
    \/ AddLifecycleHandler
    \/ \E w \in Waiters : WaitForConnected(w)
    \/ \E w \in Waiters : ResumeWaiter(w)
    \/ \E w \in Waiters : TimeoutWaiter(w)
    \/ \E w \in Waiters : CancelWaiter(w)
    \/ \E t \in Tasks : CancelConnect(t)

SpecWait == Init /\ [][NextWait]_vars

\* ------------------------------------------------------------------ claims
\* loop task t calls open_unix_connection in this step
OpenAttempt(t) == task[t] # "opening" /\ task'[t] = "opening"

\* C1: a request issued while the transport handle is absent, which fails at
\* once with NotConnected, leaves no waiter for its id in _response_waiters.
C1_NotConnectedLeavesNoWaiter ==
    \A i \in RequestIds :
        (call[i].st = "done" /\ ~call[i].sent /\ call[i].outcome = NotConnected) =>
            i \notin response_waiters

\* C2: every waiter that is registered and pending when a read loop ends has
\* been failed by the time a reconnect loop makes the next open attempt.
C2_AbandonedBeforeReopen ==
    [][(\E t \in Tasks : OpenAttempt(t)) =>
           \A i \in owed' : future'[i].st # "pending"]_vars

C4_OneLoopTask ==
    Cardinality({t \in Tasks : Alive(task[t])}) <= 1

\* C5: once disconnect() has returned and until connect() is called again,
\* the client is not connected and no open attempt is made.
C5_StaysDisconnected ==
    [][(stopped /\ stopped') =>
           /\ ~is_connected'
           /\ \A t \in Tasks : ~OpenAttempt(t)]_vars

\* C6, as claimed: a response frame that carries an `error` member and pops
\* a registered waiter leaves that waiter failed, whatever the member holds.
C6_ErrorFrameFails ==
    \A i \in RequestIds :
        (handled[i].req.id # None /\ handled[i].req.error # "absent") =>
            future[i].st = "exception"

\* C6, amended: when the `error` member is a string or an object the waiter
\* never ends with a result.  A waiter that was unsettled is failed with
\* ResponseError, or with UnexpectedError when the type is unexpected_error
\* and `data` is an object; it is left unsettled when the type is
\* unexpected_error and there is no `data`; and a waiter that the abandon pass
\* had failed stays failed with NotConnected.
C6_StringOrObjectErrorNeverSucceeds ==
    \A i \in RequestIds :
        LET req == handled[i].req
        IN  (req.id # None /\ req.error \in {"string", "object"}) =>
                /\ future[i].st # "result"
                /\ handled[i].was_done => future[i] = NotConnected
                /\ (~handled[i].was_done /\ req.type # UNEXPECTED_ERROR) =>
                       future[i] = ExceptionOf("ResponseError", "", req.error)
                /\ (~handled[i].was_done /\ req.type = UNEXPECTED_ERROR) =>
                       IF req.data = "absent"
                       THEN future[i].st = "pending"
                       ELSE future[i].st = "exception" /\ future[i].exc = "UnexpectedError"

\* C6, witness: a frame with a string `error` and a `data` object failed its waiter
C6_ErrorWithDataFailed ==
    \E i \in RequestIds :
        /\ handled[i].req.error = "string"
        /\ handled[i].req.data = "object"
        /\ handled[i].req.type \in Types
        /\ future[i].exc = "ResponseError"

\* C7: a request that was sent and whose waiter was resolved with a response
\* returns the response's payload when its type is the expected one, and
\* fails with UnexpectedResponse carrying the response's type and payload
\* otherwise.
C7_ResponseTypeChecked ==
    \A i \in RequestIds :
        (call[i].st = "done" /\ call[i].sent /\ future[i].st = "result") =>
            /\ future[i].type = handled[i].req.type
            /\ future[i].data = handled[i].req.data
            /\ IF handled[i].req.type = call[i].expected
               THEN /\ call[i].outcome.st = "returned"
                    /\ call[i].outcome.data = handled[i].req.data
               ELSE call[i].outcome =
                        UnexpectedResponse(handled[i].req.type, handled[i].req.data)

\* C7, witness: a caller that expected ping and was answered pong
C7_MismatchRaised ==
    \E i \in RequestIds :
        /\ call[i].st = "done"
        /\ call[i].expected = "ping"
        /\ handled[i].req.type = "pong"
        /\ call[i].outcome = UnexpectedResponse("pong", "object")

\* C8: a dispatch in which a handler raised is recorded as "error", one in
\* which none raised as "success", and either has called every handler that
\* was registered for the event from its start to its end.
C8_EveryHandlerRunsDespiteFailure ==
    \A k \in Slots :
        (run[k].st = "done" /\ run[k].keyed) =>
            /\ run[k].result =
                   IF \E j \in 1..Len(run[k].raised) : run[k].raised[j]
                   THEN "error" ELSE "success"
            /\ run[k].kept \subseteq Registered(run[k].invoked)

C10_StableSnapshot ==
    \A k \in Slots :
        (run[k].st = "done" /\ run[k].keyed) =>
            run[k].invoked = run[k].at_start

\* C11: a call of wait_for_connected made while the client is not connected
\* is suspended on the connected signal; it never returns false without
\* having waited.
C11_NeverFalseWithoutWaiting ==
    \A w \in Waiters : waiter[w].st = "false" => waiter[w].waited

\* the reconnect loop t resolves the connected signal in this step (line 97)
Resolved(t) ==
    \/ task[t] \in {"opening", "connect_event"} /\
           task'[t] \in {"await_read", "disconnect_event"}
    \/ task[t] = "connect_event" /\ task'[t] = "opening"

\* caller w of wait_for_connected times out or is cancelled in this step
Stopped(w) ==
    /\ waiter[w].st \in {"blocked", "orphaned", "woken"}
    /\ waiter'[w].st \in {"timeout", "cancelled"}

\* C12, as claimed: a caller that was blocked in wait_for_connected when
\* another caller timed out or was cancelled ends its own call with true.
C12_OthersReleasedWithTrue ==
    \A w, v \in Waiters :
        (/\ waiter[w].st \in {"timeout", "cancelled"}
         /\ v \in waiter[w].left
         /\ waiter[v].st \in {"true", "false"}) => waiter[v].st = "true"

\* C12, amended: a time-out or cancellation of one caller changes nothing but
\* that caller; every caller blocked on the current signal is woken when the
\* reconnect loop resolves it, and a woken caller that runs returns the
\* value is_connected has then.
C12_StopLeavesOthersAlone ==
    [][/\ \A w \in Waiters : Stopped(w) =>
              /\ \A v \in Waiters \ {w} : waiter'[v] = waiter[v]
              /\ UNCHANGED <<reader, writer, is_connected, connect_future,
                             communicate_task, response_waiters,
                             rpc_event_handlers, task, read_loop, run, future,
                             call, connector>>
       /\ \A t \in Tasks, w \in Waiters :
              (Resolved(t) /\ waiter[w].st = "blocked") => waiter'[w].st = "woken"
       /\ \A w \in Waiters :
              (waiter[w].st = "woken" /\ waiter'[w].st \in {"true", "false"}) =>
                  waiter'[w].st = IF is_connected THEN "true" ELSE "false"]_vars

\* C12, witness: a caller timed out while another was blocked, and that one
\* was released with true afterwards
C12_OtherReleasedAfterTimeout ==
    \E w, v \in Waiters :
        /\ waiter[w].st = "timeout"
        /\ v \in waiter[w].left
        /\ waiter[v].st = "true"

C14_OnlyRequestLevelErrors ==
    \A i \in RequestIds :
        call[i].st = "done" =>
            \/ call[i].outcome.st = "returned"
            \/ /\ call[i].outcome.st = "exception"
               /\ call[i].outcome.exc \in {"NotConnected", "UnexpectedResponse",
                                           "UnexpectedError", "ResponseError"}

\* C15: a frame of type unexpected_error that pops an unsettled waiter fails
\* it with UnexpectedError, with the daemon's message or the default one; and
\* no unsettled waiter is out of the registry.
C15_UnexpectedErrorFailsWaiter ==
    \A i \in RequestIds :
        /\ (handled[i].req.type = UNEXPECTED_ERROR /\ ~handled[i].was_done) =>
               future[i] = UnexpectedError(IF handled[i].req.data = "object_message"
                                           THEN "message" ELSE "no message")
        /\ future[i].st = "pending" => i \in response_waiters

\* C16: a malformed line changes nothing: the read loop keeps running, the
\* registry, the waiters, the handler table and the dispatches are as they
\* were; and the well-formed frame that follows it is routed, to its waiter
\* when it has an id and to the dispatcher otherwise.
C16_MalformedLineDropped ==
    [][/\ (line_result # "dropped" /\ line_result' = "dropped") =>
              UNCHANGED <<reader, writer, is_connected, connect_future,
                          communicate_task, response_waiters, rpc_event_handlers,
                          task, read_loop, run, future, call, handled,
                          connector, waiter>>
       /\ (line_result = "dropped" /\ line_result' = "response_after_drop") =>
              \E i \in response_waiters :
                  /\ response_waiters' = response_waiters \ {i}
                  /\ future[i].st = "pending"
                  /\ future'[i].st = "result"
       /\ (line_result = "dropped" /\ line_result' = "event_after_drop") =>
              /\ run'[EventSlot].cmd \in EventTypes
              /\ run'[EventSlot].invoked =
                     IF rpc_event_handlers[run'[EventSlot].cmd].list = <<>>
                     THEN <<>>
                     ELSE <<rpc_event_handlers[run'[EventSlot].cmd].list[1]>>]_vars

\* C16, witness: after a dropped line, the response to a pending request was
\* routed to its waiter and its caller returned the payload
C16_ResponseRoutedAfterDrop ==
    /\ line_result = "response_after_drop"
    /\ \E i \in RequestIds :
           /\ call[i].st = "done"
           /\ call[i].outcome.st = "returned"

\* C17: once disconnect() has returned and no task of the client is left to
\* run, no request caller is waiting on an unsettled waiter.
C17_NoCallerLeftWaiting ==
    (/\ stopped
     /\ \A t \in Tasks : ~Alive(task[t]) /\ read_loop[t] # "running"
     /\ \A k \in Slots : run[k].st # "running") =>
        \A i \in RequestIds : call[i].st = "waiting" => future[i].st # "pending"

\* C18: after the caller of connect() was cancelled the reconnect loop does
\* not raise: it resolves the connected signal itself and goes on.
C18_LoopSurvivesCancelledConnect ==
    \A t \in Tasks : connector[t] = "cancelled" => task[t] # "failed"

\* C19: while the read loop of the connection that the client holds has
\* ended, the transport handle is absent, so that a request fails with
\* NotConnected and none is left waiting on a transport nobody reads.
C19_HandleAbsentAfterReadLoopEnds ==
    /\ \A t \in Tasks : Ended(read_loop[t]) => writer # t
    /\ \A i \in RequestIds :
           (call[i].st = "waiting" /\ future[i].st = "pending" /\ writer # None) =>
               ~Ended(read_loop[writer])

\* C20: every waiter in the registry is unsettled.
C20_RegistryHoldsUnsettledOnly ==
    \A i \in response_waiters : future[i].st = "pending"

====
